---- MODULE Spec2Model ----
(***************************************************************************)
(* ERC-1155 Stylus multi-token contract                                    *)
(* (packages/components/erc1155-stylus/contract/src/lib.rs).               *)
(*                                                                         *)
(* The contract is a state-transition function invoked once per external   *)
(* call.  Every public function is an operator from the storage before the *)
(* call to a result [st, err, ret]: st is the storage as the function body *)
(* left it (writes are made in program order, also before a later check    *)
(* fails), err is the returned error (Ok for success), ret the returned    *)
(* value.  The #[entrypoint] of the Stylus program turns an Err result     *)
(* into a revert of the call: the storage writes and logs of a reverted    *)
(* call are discarded by the host, those of a successful call persist.     *)
(***************************************************************************)
EXTENDS Integers, Sequences, FiniteSets, TLC

\* ------------------------------------------------------------------ bounds

\* Number of non-null accounts.
NumAccounts == 2
\* Largest token id a caller names (and the last id mint_new may allocate).
MaxTokenId == 2
\* Bit width of the unsigned integers (U256 in the source, scaled down).
Width == 8
\* Longest ids/amounts array passed to a batch call.
MaxBatch == 2
\* Longest event log explored: no call is taken once the log is this long.
MaxEvents == 3

\* ------------------------------------------------------------------ values

\* Address::ZERO
Null == 0
Accounts == 1..NumAccounts
Addresses == {Null} \cup Accounts
\* msg::sender() of an external call is never the null account.
Callers == Accounts

TokenIds == 1..MaxTokenId
\* Keys of the id-indexed mappings: every id a call can touch.
IdSpace == 0..(MaxTokenId + 1)

Modulus == 2 ^ Width
MaxUint == Modulus - 1
\* Amounts callers pass in the explored calls: one and the largest value.
Amounts == {1, MaxUint}
\* Amounts the claims range over: also zero.
ClaimAmounts == {0} \cup Amounts
\* Amounts callers pass in the arrays of a batch call.
BatchAmounts == {1, MaxUint}
\* Amounts of the ids=[1,1], amounts=[70,40], balance 60 scenario.
ScenarioAmounts == {40, 60, 70}

BaseUris == {"ipfs://a/", "ipfs://b/"}

SeqsUpTo(S, n) == UNION {[1..k -> S] : k \in 0..n}

\* U256 `+` and `-` (ruint operators) wrap modulo 2^Width.
Add(a, b) == (a + b) % Modulus
Sub(a, b) == (a - b + Modulus) % Modulus

\* ------------------------------------------------------------------- state

VARIABLES
    base_uri,            \* string base_uri
    balances,            \* mapping(address => mapping(uint256 => uint256))
    operator_approvals,  \* mapping(address => mapping(address => bool))
    total_supply,        \* mapping(uint256 => uint256)
    token_exists,        \* mapping(uint256 => bool)
    owner,               \* address owner
    paused,              \* bool paused
    initialized,         \* bool initialized
    next_token_id,       \* uint256 next_token_id
    events               \* the log of the persisted evm::log calls, in order

vars == <<base_uri, balances, operator_approvals, total_supply, token_exists,
          owner, paused, initialized, next_token_id, events>>

\* The contract storage (with the log) as one value.
Storage ==
    [base_uri |-> base_uri, balances |-> balances,
     operator_approvals |-> operator_approvals, total_supply |-> total_supply,
     token_exists |-> token_exists, owner |-> owner, paused |-> paused,
     initialized |-> initialized, next_token_id |-> next_token_id,
     events |-> events]

\* sol_storage! defaults: every slot reads zero / false / empty.
EmptyStorage ==
    [base_uri |-> "", balances |-> [a \in Addresses |-> [i \in IdSpace |-> 0]],
     operator_approvals |-> [a \in Addresses |-> [o \in Addresses |-> FALSE]],
     total_supply |-> [i \in IdSpace |-> 0],
     token_exists |-> [i \in IdSpace |-> FALSE],
     owner |-> Null, paused |-> FALSE, initialized |-> FALSE,
     next_token_id |-> 0, events |-> <<>>]

\* ----------------------------------------------------------------- results

NoErr == [kind |-> "Ok"]
Ok(s) == [st |-> s, err |-> NoErr, ret |-> 0]
OkRet(s, v) == [st |-> s, err |-> NoErr, ret |-> v]
Err(s, e) == [st |-> s, err |-> e, ret |-> 0]
IsOk(r) == r.err.kind = "Ok"

\* evm::log
Log(s, e) == [s EXCEPT !.events = Append(@, e)]

TransferSingle(operator, from, to, id, value) ==
    [kind |-> "TransferSingle", operator |-> operator, from |-> from, to |-> to,
     id |-> id, value |-> value]
TransferBatch(operator, from, to, ids, values) ==
    [kind |-> "TransferBatch", operator |-> operator, from |-> from, to |-> to,
     ids |-> ids, values |-> values]
ApprovalForAll(account, operator, approved) ==
    [kind |-> "ApprovalForAll", account |-> account, operator |-> operator,
     approved |-> approved]
URI(value, id) == [kind |-> "URI", value |-> value, id |-> id]
OwnershipTransferred(previousOwner, newOwner) ==
    [kind |-> "OwnershipTransferred", previousOwner |-> previousOwner,
     newOwner |-> newOwner]
Paused(account) == [kind |-> "Paused", account |-> account]
Unpaused(account) == [kind |-> "Unpaused", account |-> account]

ERC1155InsufficientBalance(sender, balance, needed, tokenId) ==
    [kind |-> "ERC1155InsufficientBalance", sender |-> sender,
     balance |-> balance, needed |-> needed, tokenId |-> tokenId]
ERC1155InvalidSender(sender) == [kind |-> "ERC1155InvalidSender", sender |-> sender]
ERC1155InvalidReceiver(receiver) ==
    [kind |-> "ERC1155InvalidReceiver", receiver |-> receiver]
ERC1155MissingApprovalForAll(operator, own) ==
    [kind |-> "ERC1155MissingApprovalForAll", operator |-> operator, owner |-> own]
ERC1155InvalidOperator(operator) ==
    [kind |-> "ERC1155InvalidOperator", operator |-> operator]
ERC1155InvalidArrayLength(idsLength, valuesLength) ==
    [kind |-> "ERC1155InvalidArrayLength", idsLength |-> idsLength,
     valuesLength |-> valuesLength]
UnauthorizedAccount(account) == [kind |-> "UnauthorizedAccount", account |-> account]
EnforcedPause == [kind |-> "EnforcedPause"]
ExpectedPause == [kind |-> "ExpectedPause"]
AlreadyInitialized == [kind |-> "Already initialized"]
SelfApproval == [kind |-> "Cannot set approval for self"]
ZeroNewOwner == [kind |-> "New owner is zero address"]

\* --------------------------------------------------------- internal functions

require_owner(s, sender) ==
    IF sender # s.owner THEN UnauthorizedAccount(sender) ELSE NoErr

\* Mutant of require_not_paused: the flag is not consulted.
require_not_paused_skipped(s) == NoErr

require_not_paused(s) == IF s.paused THEN EnforcedPause ELSE NoErr

require_paused(s) == IF ~s.paused THEN ExpectedPause ELSE NoErr

is_approved_for_all(s, account, operator) == s.operator_approvals[account][operator]

\* The debit and the credit of one transfer, in program order: the credit
\* reads to's balance after the debit was stored.
MoveBalance(s, from, to, id, amount) ==
    LET from_balance == s.balances[from][id]
        s1 == [s EXCEPT !.balances[from][id] = Sub(from_balance, amount)]
        to_balance == s1.balances[to][id]
    IN  [s1 EXCEPT !.balances[to][id] = Add(to_balance, amount)]

transfer_internal(s, operator, from, to, id, amount) ==
    IF from = Null THEN Err(s, ERC1155InvalidSender(from))
    ELSE IF to = Null THEN Err(s, ERC1155InvalidReceiver(to))
    ELSE LET from_balance == s.balances[from][id] IN
         IF from_balance < amount
         THEN Err(s, ERC1155InsufficientBalance(from, from_balance, amount, id))
         ELSE Ok(Log(MoveBalance(s, from, to, id, amount),
                     TransferSingle(operator, from, to, id, amount)))

\* Mutant of BatchTransferLoop: the balance check compares the wrong way round.
RECURSIVE BatchTransferLoopFlipped(_, _, _, _, _, _)
BatchTransferLoopFlipped(s, from, to, ids, amounts, i) ==
    IF i > Len(ids) THEN [st |-> s, err |-> NoErr, at |-> 0]
    ELSE LET id == ids[i]
             amount == amounts[i]
             from_balance == s.balances[from][id]
         IN  IF from_balance > amount
             THEN [st |-> s,
                   err |-> ERC1155InsufficientBalance(from, from_balance, amount, id),
                   at |-> i]
             ELSE BatchTransferLoopFlipped(MoveBalance(s, from, to, id, amount),
                                           from, to, ids, amounts, i + 1)

\* The loop of batch_transfer_internal from index i on; `at` is the index
\* whose balance check returned the error (0 when the loop ran to its end).
RECURSIVE BatchTransferLoop(_, _, _, _, _, _)
BatchTransferLoop(s, from, to, ids, amounts, i) ==
    IF i > Len(ids) THEN [st |-> s, err |-> NoErr, at |-> 0]
    ELSE LET id == ids[i]
             amount == amounts[i]
             from_balance == s.balances[from][id]
         IN  IF from_balance < amount
             THEN [st |-> s,
                   err |-> ERC1155InsufficientBalance(from, from_balance, amount, id),
                   at |-> i]
             ELSE BatchTransferLoop(MoveBalance(s, from, to, id, amount),
                                    from, to, ids, amounts, i + 1)

\* Mutant of batch_transfer_internal: every index is validated against the
\* balances before the call, then all indices are applied.
RECURSIVE MoveAll(_, _, _, _, _, _)
MoveAll(s, from, to, ids, amounts, i) ==
    IF i > Len(ids) THEN s
    ELSE MoveAll(MoveBalance(s, from, to, ids[i], amounts[i]), from, to, ids, amounts, i + 1)
batch_transfer_internal_prevalidated(s, operator, from, to, ids, amounts) ==
    IF from = Null THEN Err(s, ERC1155InvalidSender(from))
    ELSE IF to = Null THEN Err(s, ERC1155InvalidReceiver(to))
    ELSE IF \E i \in 1..Len(ids) : s.balances[from][ids[i]] < amounts[i]
    THEN LET i == CHOOSE j \in 1..Len(ids) : s.balances[from][ids[j]] < amounts[j]
         IN  Err(s, ERC1155InsufficientBalance(from, s.balances[from][ids[i]],
                                              amounts[i], ids[i]))
    ELSE Ok(Log(MoveAll(s, from, to, ids, amounts, 1),
                TransferBatch(operator, from, to, ids, amounts)))

batch_transfer_internal(s, operator, from, to, ids, amounts) ==
    IF from = Null THEN Err(s, ERC1155InvalidSender(from))
    ELSE IF to = Null THEN Err(s, ERC1155InvalidReceiver(to))
    ELSE LET l == BatchTransferLoop(s, from, to, ids, amounts, 1) IN
         IF l.err.kind # "Ok" THEN Err(l.st, l.err)
         ELSE Ok(Log(l.st, TransferBatch(operator, from, to, ids, amounts)))

\* The three writes of one mint.
MintApply(s, to, id, amount) ==
    LET balance == s.balances[to][id]
        s1 == [s EXCEPT !.balances[to][id] = Add(balance, amount)]
        supply == s1.total_supply[id]
        s2 == [s1 EXCEPT !.total_supply[id] = Add(supply, amount)]
    IN  [s2 EXCEPT !.token_exists[id] = TRUE]

mint_internal(s, sender, to, id, amount) ==
    IF to = Null THEN Err(s, ERC1155InvalidReceiver(to))
    ELSE Ok(Log(MintApply(s, to, id, amount),
                TransferSingle(sender, Null, to, id, amount)))

RECURSIVE BatchMintLoop(_, _, _, _, _)
BatchMintLoop(s, to, ids, amounts, i) ==
    IF i > Len(ids) THEN s
    ELSE BatchMintLoop(MintApply(s, to, ids[i], amounts[i]), to, ids, amounts, i + 1)

\* Mutant of batch_mint_internal: one TransferSingle is logged per index
\* instead of one TransferBatch for the call.
RECURSIVE BatchMintLoopLogging(_, _, _, _, _, _)
BatchMintLoopLogging(s, sender, to, ids, amounts, i) ==
    IF i > Len(ids) THEN s
    ELSE BatchMintLoopLogging(
             Log(MintApply(s, to, ids[i], amounts[i]),
                 TransferSingle(sender, Null, to, ids[i], amounts[i])),
             sender, to, ids, amounts, i + 1)
batch_mint_internal_single_events(s, sender, to, ids, amounts) ==
    IF to = Null THEN Err(s, ERC1155InvalidReceiver(to))
    ELSE Ok(BatchMintLoopLogging(s, sender, to, ids, amounts, 1))

batch_mint_internal(s, sender, to, ids, amounts) ==
    IF to = Null THEN Err(s, ERC1155InvalidReceiver(to))
    ELSE Ok(Log(BatchMintLoop(s, to, ids, amounts, 1),
                TransferBatch(sender, Null, to, ids, amounts)))

\* Mutant of BurnApply: the existence flag is cleared when the supply reaches zero.
BurnApplyClearsExists(s, from, id, amount) ==
    LET balance == s.balances[from][id]
        s1 == [s EXCEPT !.balances[from][id] = Sub(balance, amount)]
        supply == s1.total_supply[id]
        s2 == [s1 EXCEPT !.total_supply[id] = Sub(supply, amount)]
    IN  IF s2.total_supply[id] = 0 THEN [s2 EXCEPT !.token_exists[id] = FALSE] ELSE s2

\* The two writes of one burn.
BurnApply(s, from, id, amount) ==
    LET balance == s.balances[from][id]
        s1 == [s EXCEPT !.balances[from][id] = Sub(balance, amount)]
        supply == s1.total_supply[id]
    IN  [s1 EXCEPT !.total_supply[id] = Sub(supply, amount)]

\* Mutant of burn_internal: the balance check is missing.
burn_internal_unchecked(s, sender, from, id, amount) ==
    IF from = Null THEN Err(s, ERC1155InvalidSender(from))
    ELSE Ok(Log(BurnApply(s, from, id, amount),
                TransferSingle(sender, from, Null, id, amount)))

burn_internal(s, sender, from, id, amount) ==
    IF from = Null THEN Err(s, ERC1155InvalidSender(from))
    ELSE LET balance == s.balances[from][id] IN
         IF balance < amount
         THEN Err(s, ERC1155InsufficientBalance(from, balance, amount, id))
         ELSE Ok(Log(BurnApply(s, from, id, amount),
                     TransferSingle(sender, from, Null, id, amount)))

RECURSIVE BatchBurnLoop(_, _, _, _, _)
BatchBurnLoop(s, from, ids, amounts, i) ==
    IF i > Len(ids) THEN [st |-> s, err |-> NoErr, at |-> 0]
    ELSE LET id == ids[i]
             amount == amounts[i]
             balance == s.balances[from][id]
         IN  IF balance < amount
             THEN [st |-> s,
                   err |-> ERC1155InsufficientBalance(from, balance, amount, id),
                   at |-> i]
             ELSE BatchBurnLoop(BurnApply(s, from, id, amount), from, ids, amounts, i + 1)

batch_burn_internal(s, sender, from, ids, amounts) ==
    IF from = Null THEN Err(s, ERC1155InvalidSender(from))
    ELSE LET l == BatchBurnLoop(s, from, ids, amounts, 1) IN
         IF l.err.kind # "Ok" THEN Err(l.st, l.err)
         ELSE Ok(Log(l.st, TransferBatch(sender, from, Null, ids, amounts)))

\* ------------------------------------------------------------ public functions

\* Mutant of initialize: the initialized flag is not checked.
initialize_unguarded(s, uri, new_owner) ==
    LET s1 == [s EXCEPT !.base_uri = uri, !.owner = new_owner,
                        !.paused = FALSE, !.next_token_id = 1,
                        !.initialized = TRUE]
    IN  Ok(Log(s1, OwnershipTransferred(Null, new_owner)))

initialize(s, uri, new_owner) ==
    IF s.initialized THEN Err(s, AlreadyInitialized)
    ELSE LET s1 == [s EXCEPT !.base_uri = uri, !.owner = new_owner,
                             !.paused = FALSE, !.next_token_id = 1,
                             !.initialized = TRUE]
         IN  Ok(Log(s1, OwnershipTransferred(Null, new_owner)))

\* Mutant of set_approval_for_all: the call is refused while paused.
set_approval_for_all_pause_gated(s, sender, operator, approved) ==
    IF require_not_paused(s) # NoErr THEN Err(s, require_not_paused(s))
    ELSE IF operator = Null THEN Err(s, ERC1155InvalidOperator(operator))
    ELSE IF operator = sender THEN Err(s, SelfApproval)
    ELSE Ok(Log([s EXCEPT !.operator_approvals[sender][operator] = approved],
                ApprovalForAll(sender, operator, approved)))

\* Mutant of set_approval_for_all: the two keys of the registry are swapped.
set_approval_for_all_swapped(s, sender, operator, approved) ==
    IF operator = Null THEN Err(s, ERC1155InvalidOperator(operator))
    ELSE IF operator = sender THEN Err(s, SelfApproval)
    ELSE Ok(Log([s EXCEPT !.operator_approvals[operator][sender] = approved],
                ApprovalForAll(sender, operator, approved)))

set_approval_for_all(s, sender, operator, approved) ==
    IF operator = Null THEN Err(s, ERC1155InvalidOperator(operator))
    ELSE IF operator = sender THEN Err(s, SelfApproval)
    ELSE Ok(Log([s EXCEPT !.operator_approvals[sender][operator] = approved],
                ApprovalForAll(sender, operator, approved)))

safe_transfer_from(s, sender, from, to, id, amount) ==
    IF require_not_paused(s) # NoErr THEN Err(s, require_not_paused(s))
    ELSE IF from # sender /\ ~is_approved_for_all(s, from, sender)
    THEN Err(s, ERC1155MissingApprovalForAll(sender, from))
    ELSE transfer_internal(s, sender, from, to, id, amount)

\* Mutant of safe_batch_transfer_from: the authorization check precedes the
\* length check.
safe_batch_transfer_from_authfirst(s, sender, from, to, ids, amounts) ==
    IF require_not_paused(s) # NoErr THEN Err(s, require_not_paused(s))
    ELSE IF from # sender /\ ~is_approved_for_all(s, from, sender)
    THEN Err(s, ERC1155MissingApprovalForAll(sender, from))
    ELSE IF Len(ids) # Len(amounts)
    THEN Err(s, ERC1155InvalidArrayLength(Len(ids), Len(amounts)))
    ELSE batch_transfer_internal(s, sender, from, to, ids, amounts)

safe_batch_transfer_from(s, sender, from, to, ids, amounts) ==
    IF require_not_paused(s) # NoErr THEN Err(s, require_not_paused(s))
    ELSE IF Len(ids) # Len(amounts)
    THEN Err(s, ERC1155InvalidArrayLength(Len(ids), Len(amounts)))
    ELSE IF from # sender /\ ~is_approved_for_all(s, from, sender)
    THEN Err(s, ERC1155MissingApprovalForAll(sender, from))
    ELSE batch_transfer_internal(s, sender, from, to, ids, amounts)

mint(s, sender, to, id, amount) ==
    IF require_owner(s, sender) # NoErr THEN Err(s, require_owner(s, sender))
    ELSE IF require_not_paused(s) # NoErr THEN Err(s, require_not_paused(s))
    ELSE mint_internal(s, sender, to, id, amount)

\* Mutant of mint_new: the counter is incremented before the id is taken.
mint_new_preincrement(s, sender, to, amount) ==
    IF require_owner(s, sender) # NoErr THEN Err(s, require_owner(s, sender))
    ELSE IF require_not_paused(s) # NoErr THEN Err(s, require_not_paused(s))
    ELSE LET id == Add(s.next_token_id, 1)
             s1 == [s EXCEPT !.next_token_id = id]
             r == mint_internal(s1, sender, to, id, amount)
         IN  IF IsOk(r) THEN OkRet(r.st, id) ELSE r

\* Mutant of mint_new: the error of mint_internal is not propagated.
mint_new_unpropagated(s, sender, to, amount) ==
    IF require_owner(s, sender) # NoErr THEN Err(s, require_owner(s, sender))
    ELSE IF require_not_paused(s) # NoErr THEN Err(s, require_not_paused(s))
    ELSE LET id == s.next_token_id
             s1 == [s EXCEPT !.next_token_id = Add(id, 1)]
             r == mint_internal(s1, sender, to, id, amount)
         IN  OkRet(r.st, id)

mint_new(s, sender, to, amount) ==
    IF require_owner(s, sender) # NoErr THEN Err(s, require_owner(s, sender))
    ELSE IF require_not_paused(s) # NoErr THEN Err(s, require_not_paused(s))
    ELSE LET id == s.next_token_id
             s1 == [s EXCEPT !.next_token_id = Add(id, 1)]
             r == mint_internal(s1, sender, to, id, amount)
         IN  IF IsOk(r) THEN OkRet(r.st, id) ELSE r

mint_batch(s, sender, to, ids, amounts) ==
    IF require_owner(s, sender) # NoErr THEN Err(s, require_owner(s, sender))
    ELSE IF require_not_paused(s) # NoErr THEN Err(s, require_not_paused(s))
    ELSE IF Len(ids) # Len(amounts)
    THEN Err(s, ERC1155InvalidArrayLength(Len(ids), Len(amounts)))
    ELSE batch_mint_internal(s, sender, to, ids, amounts)

burn(s, sender, id, amount) ==
    IF require_not_paused(s) # NoErr THEN Err(s, require_not_paused(s))
    ELSE burn_internal(s, sender, sender, id, amount)

burn_from(s, sender, from, id, amount) ==
    IF require_not_paused(s) # NoErr THEN Err(s, require_not_paused(s))
    ELSE IF from # sender /\ ~is_approved_for_all(s, from, sender)
    THEN Err(s, ERC1155MissingApprovalForAll(sender, from))
    ELSE burn_internal(s, sender, from, id, amount)

burn_batch(s, sender, ids, amounts) ==
    IF require_not_paused(s) # NoErr THEN Err(s, require_not_paused(s))
    ELSE IF Len(ids) # Len(amounts)
    THEN Err(s, ERC1155InvalidArrayLength(Len(ids), Len(amounts)))
    ELSE batch_burn_internal(s, sender, sender, ids, amounts)

pause(s, sender) ==
    IF require_owner(s, sender) # NoErr THEN Err(s, require_owner(s, sender))
    ELSE IF require_not_paused(s) # NoErr THEN Err(s, require_not_paused(s))
    ELSE Ok(Log([s EXCEPT !.paused = TRUE], Paused(sender)))

\* Mutant of unpause: the caller need not be the owner.
unpause_ungated(s, sender) ==
    IF require_paused(s) # NoErr THEN Err(s, require_paused(s))
    ELSE Ok(Log([s EXCEPT !.paused = FALSE], Unpaused(sender)))

\* Mutant of unpause: the paused flag is not required.
unpause_unchecked(s, sender) ==
    IF require_owner(s, sender) # NoErr THEN Err(s, require_owner(s, sender))
    ELSE Ok(Log([s EXCEPT !.paused = FALSE], Unpaused(sender)))

unpause(s, sender) ==
    IF require_owner(s, sender) # NoErr THEN Err(s, require_owner(s, sender))
    ELSE IF require_paused(s) # NoErr THEN Err(s, require_paused(s))
    ELSE Ok(Log([s EXCEPT !.paused = FALSE], Unpaused(sender)))

set_uri(s, sender, new_uri) ==
    IF require_owner(s, sender) # NoErr THEN Err(s, require_owner(s, sender))
    ELSE Ok(Log([s EXCEPT !.base_uri = new_uri], URI(new_uri, 0)))

\* Mutant of transfer_ownership: the owner check is missing.
transfer_ownership_unchecked(s, sender, new_owner) ==
    IF new_owner = Null THEN Err(s, ZeroNewOwner)
    ELSE LET old_owner == s.owner IN
         Ok(Log([s EXCEPT !.owner = new_owner],
                OwnershipTransferred(old_owner, new_owner)))

transfer_ownership(s, sender, new_owner) ==
    IF require_owner(s, sender) # NoErr THEN Err(s, require_owner(s, sender))
    ELSE IF new_owner = Null THEN Err(s, ZeroNewOwner)
    ELSE LET old_owner == s.owner IN
         Ok(Log([s EXCEPT !.owner = new_owner],
                OwnershipTransferred(old_owner, new_owner)))

renounce_ownership(s, sender) ==
    IF require_owner(s, sender) # NoErr THEN Err(s, require_owner(s, sender))
    ELSE LET old_owner == s.owner IN
         Ok(Log([s EXCEPT !.owner = Null], OwnershipTransferred(old_owner, Null)))

\* Mutant of Entrypoint: the writes of a failed call are kept.
EntrypointKeepsWrites(s, r) == r.st

\* The storage an external call leaves behind: the #[entrypoint] returns
\* status 1 for an Err result, on which the host reverts the call and with it
\* every storage write and log the function body made.
Entrypoint(s, r) == IF IsOk(r) THEN r.st ELSE s

\* ----------------------------------------------------------------- actions

TypeOK ==
    /\ base_uri \in BaseUris \cup {""}
    /\ balances \in [Addresses -> [IdSpace -> 0..MaxUint]]
    /\ operator_approvals \in [Addresses -> [Addresses -> BOOLEAN]]
    /\ total_supply \in [IdSpace -> 0..MaxUint]
    /\ token_exists \in [IdSpace -> BOOLEAN]
    /\ owner \in Addresses
    /\ paused \in BOOLEAN
    /\ initialized \in BOOLEAN
    /\ next_token_id \in 0..(MaxTokenId + 1)
    /\ Len(events) <= MaxEvents

Init ==
    /\ base_uri = EmptyStorage.base_uri
    /\ balances = EmptyStorage.balances
    /\ operator_approvals = EmptyStorage.operator_approvals
    /\ total_supply = EmptyStorage.total_supply
    /\ token_exists = EmptyStorage.token_exists
    /\ owner = EmptyStorage.owner
    /\ paused = EmptyStorage.paused
    /\ initialized = EmptyStorage.initialized
    /\ next_token_id = EmptyStorage.next_token_id
    /\ events = EmptyStorage.events

\* One external call with result r: the storage after the call is what the
\* entrypoint leaves.
Call(r) ==
    /\ LET s2 == Entrypoint(Storage, r) IN
         /\ base_uri' = s2.base_uri
         /\ balances' = s2.balances
         /\ operator_approvals' = s2.operator_approvals
         /\ total_supply' = s2.total_supply
         /\ token_exists' = s2.token_exists
         /\ owner' = s2.owner
         /\ paused' = s2.paused
         /\ initialized' = s2.initialized
         /\ next_token_id' = s2.next_token_id
         /\ events' = s2.events

Initialize ==
    \E uri \in BaseUris, o \in Addresses :
        Call(initialize(Storage, uri, o))

SetApprovalForAll ==
    \E c \in Callers, o \in Addresses, b \in BOOLEAN :
        Call(set_approval_for_all(Storage, c, o, b))

SafeTransferFrom ==
    \E c \in Callers, from \in Addresses, to \in Addresses,
       id \in TokenIds, amount \in Amounts :
        Call(safe_transfer_from(Storage, c, from, to, id, amount))

SafeBatchTransferFrom ==
    \E c \in Callers, from \in Addresses, to \in Addresses,
       ids \in SeqsUpTo(TokenIds, MaxBatch), amounts \in SeqsUpTo(BatchAmounts, MaxBatch) :
        Call(safe_batch_transfer_from(Storage, c, from, to, ids, amounts))

Mint ==
    \E c \in Callers, to \in Addresses, id \in TokenIds, amount \in Amounts :
        Call(mint(Storage, c, to, id, amount))

MintNew ==
    /\ next_token_id <= MaxTokenId
    /\ \E c \in Callers, to \in Addresses, amount \in Amounts :
        Call(mint_new(Storage, c, to, amount))

MintBatch ==
    \E c \in Callers, to \in Addresses,
       ids \in SeqsUpTo(TokenIds, MaxBatch), amounts \in SeqsUpTo(BatchAmounts, MaxBatch) :
        Call(mint_batch(Storage, c, to, ids, amounts))

Burn ==
    \E c \in Callers, id \in TokenIds, amount \in Amounts :
        Call(burn(Storage, c, id, amount))

BurnFrom ==
    \E c \in Callers, from \in Addresses, id \in TokenIds, amount \in Amounts :
        Call(burn_from(Storage, c, from, id, amount))

BurnBatch ==
    \E c \in Callers,
       ids \in SeqsUpTo(TokenIds, MaxBatch), amounts \in SeqsUpTo(BatchAmounts, MaxBatch) :
        Call(burn_batch(Storage, c, ids, amounts))

Pause == \E c \in Callers : Call(pause(Storage, c))

Unpause == \E c \in Callers : Call(unpause(Storage, c))

SetUri ==
    \E c \in Callers, uri \in BaseUris : Call(set_uri(Storage, c, uri))

TransferOwnership ==
    \E c \in Callers, o \in Addresses :
        Call(transfer_ownership(Storage, c, o))

RenounceOwnership ==
    \E c \in Callers : Call(renounce_ownership(Storage, c))

\* Calls are taken while the log is shorter than n.
Budget(n) == Len(events) < n

Next ==
    \/ Budget(MaxEvents) /\ Initialize
    \/ Budget(MaxEvents) /\ SetApprovalForAll
    \/ Budget(MaxEvents) /\ SafeTransferFrom
    \/ Budget(MaxEvents) /\ SafeBatchTransferFrom
    \/ Budget(MaxEvents) /\ Mint
    \/ Budget(MaxEvents) /\ MintNew
    \/ Budget(MaxEvents) /\ MintBatch
    \/ Budget(MaxEvents) /\ Burn
    \/ Budget(MaxEvents) /\ BurnFrom
    \/ Budget(MaxEvents) /\ BurnBatch
    \/ Budget(MaxEvents) /\ Pause
    \/ Budget(MaxEvents) /\ Unpause
    \/ Budget(MaxEvents) /\ SetUri
    \/ Budget(MaxEvents) /\ TransferOwnership
    \/ Budget(MaxEvents) /\ RenounceOwnership

Spec == Init /\ [][Next]_vars

\* The ledger calls alone, one call deeper.
DeepEvents == MaxEvents + 1

NextLedger ==
    \/ Budget(DeepEvents) /\ Initialize
    \/ Budget(DeepEvents) /\ SetApprovalForAll
    \/ Budget(DeepEvents) /\ SafeTransferFrom
    \/ Budget(DeepEvents) /\ Mint
    \/ Budget(DeepEvents) /\ Burn
    \/ Budget(DeepEvents) /\ BurnFrom

SpecLedger == Init /\ [][NextLedger]_vars

\* The calls of the scenario "ids=[1,1], amounts=[70,40], from holds 60 of id 1".
ScenarioIds == <<1, 1>>
ScenarioValues == <<70, 40>>

ScenarioMint ==
    \E c \in Callers, to \in Addresses, id \in TokenIds, amount \in ScenarioAmounts :
        Call(mint(Storage, c, to, id, amount))

ScenarioBatchTransfer ==
    \E c \in Callers, from \in Addresses, to \in Addresses :
        Call(safe_batch_transfer_from(Storage, c, from, to, ScenarioIds, ScenarioValues))

NextScenario ==
    \/ Budget(DeepEvents) /\ Initialize
    \/ Budget(DeepEvents) /\ SetApprovalForAll
    \/ Budget(DeepEvents) /\ ScenarioMint
    \/ Budget(DeepEvents) /\ ScenarioBatchTransfer

SpecScenario == Init /\ [][NextScenario]_vars

\* The lifecycle calls with the single ledger calls, two calls deeper.
LifecycleEvents == MaxEvents + 2

NextLifecycle ==
    \/ Budget(LifecycleEvents) /\ Initialize
    \/ Budget(LifecycleEvents) /\ SetApprovalForAll
    \/ Budget(LifecycleEvents) /\ SafeTransferFrom
    \/ Budget(LifecycleEvents) /\ Mint
    \/ Budget(LifecycleEvents) /\ Burn
    \/ Budget(LifecycleEvents) /\ Pause
    \/ Budget(LifecycleEvents) /\ Unpause
    \/ Budget(LifecycleEvents) /\ RenounceOwnership

SpecLifecycle == Init /\ [][NextLifecycle]_vars

\* ------------------------------------------------------------------ claims

\* Inputs of the batch calls.
BatchIds == SeqsUpTo(TokenIds, MaxBatch)
BatchValues == SeqsUpTo(BatchAmounts, MaxBatch)

RECURSIVE SumUpTo(_, _, _)
SumUpTo(bal, id, n) == IF n < 0 THEN 0 ELSE bal[n][id] + SumUpTo(bal, id, n - 1)
\* The sum over all accounts of balance(account, id), as an unbounded integer.
BalanceSum(bal, id) == SumUpTo(bal, id, NumAccounts)

LastEvent == events[Len(events)]

\* C1 (Conservation): in every reachable state, for every token id, the sum
\* over all accounts of balance(account, id) equals total_supply(id).
C1_Conservation ==
    \A id \in IdSpace : BalanceSum(balances, id) = total_supply[id]

\* The ledger and the log, the parts of the storage C2 speaks of.
LedgerAndLog(s) == <<s.balances, s.total_supply, s.token_exists, s.events>>

\* A failed call on storage s leaves the ledger and the log as they were.
RolledBack(s, r) == ~IsOk(r) => LedgerAndLog(Entrypoint(s, r)) = LedgerAndLog(s)

\* The ledger that the logged transfer event e accounts for, applied to s.
ReplayEvent(s, e) ==
    IF e.kind = "TransferSingle" THEN
        IF e.from = Null THEN MintApply(s, e.to, e.id, e.value)
        ELSE IF e.to = Null THEN BurnApply(s, e.from, e.id, e.value)
        ELSE MoveBalance(s, e.from, e.to, e.id, e.value)
    ELSE IF e.kind = "TransferBatch" THEN
        IF e.from = Null THEN BatchMintLoop(s, e.to, e.ids, e.values, 1)
        ELSE IF e.to = Null THEN BatchBurnLoop(s, e.from, e.ids, e.values, 1).st
        ELSE BatchTransferLoop(s, e.from, e.to, e.ids, e.values, 1).st
    ELSE s

RECURSIVE Replay(_, _, _)
Replay(s, log, i) ==
    IF i > Len(log) THEN s ELSE Replay(ReplayEvent(s, log[i]), log, i + 1)

\* The ledger is exactly what the logged (successful) calls account for.
LedgerIsReplayOfLog ==
    LET s == Replay(EmptyStorage, events, 1) IN
        /\ s.balances = balances
        /\ s.total_supply = total_supply
        /\ s.token_exists = token_exists

FailsWith(s, r, e) == r.err = e /\ Entrypoint(s, r) = s

\* A call on storage s that fails, with whatever error, and changes nothing.
Fails(s, r) == ~IsOk(r) /\ Entrypoint(s, r) = s

\* The scenario call, and the index at which its loop stopped.
ScenarioCall(s, c, from, to) ==
    safe_batch_transfer_from(s, c, from, to, ScenarioIds, ScenarioValues)
ScenarioStop(s, from, to) ==
    BatchTransferLoop(s, from, to, ScenarioIds, ScenarioValues, 1).at
\* The scenario's precondition: from holds exactly 60 of id 1, the caller is
\* authorized, to is not null, the contract is not paused.
ScenarioPre(s, c, from, to) ==
    /\ s.balances[from][1] = 60
    /\ (c = from \/ is_approved_for_all(s, from, c))
    /\ ~s.paused

\* C3 as stated: the scenario call fails with InsufficientBalance, the error
\* is raised for the second index and reports the balance left after the
\* first index was applied against the second amount, and from still holds 60.
C3_Original ==
    LET s == Storage IN
    \A c \in Callers, from \in Accounts, to \in Accounts :
        ScenarioPre(s, c, from, to) =>
            LET r == ScenarioCall(s, c, from, to) IN
                /\ r.err.kind = "ERC1155InsufficientBalance"
                /\ ScenarioStop(s, from, to) = 2
                /\ r.err.needed = ScenarioValues[2]
                /\ Entrypoint(s, r).balances[from][1] = 60

\* C3 (amended): the scenario call fails with InsufficientBalance raised at
\* the first index, before any write: the error reports sender = from,
\* balance = 60, needed = 70, tokenId = 1, and from still holds 60.
C3_FirstIndexFails ==
    LET s == Storage IN
    \A c \in Callers, from \in Accounts, to \in Accounts :
        ScenarioPre(s, c, from, to) =>
            LET r == ScenarioCall(s, c, from, to) IN
                /\ r.err = ERC1155InsufficientBalance(from, 60, ScenarioValues[1], 1)
                /\ ScenarioStop(s, from, to) = 1
                /\ r.st = s
                /\ Entrypoint(s, r).balances[from][1] = 60

\* A state of the scenario: from holds 60 of id 1 and the call is refused,
\* once for the holder itself and once for an approved operator.
C3_Witness ==
    \E from \in Accounts, c \in Accounts, to \in Accounts :
        /\ c # from
        /\ ScenarioPre(Storage, c, from, to)
        /\ ~IsOk(ScenarioCall(Storage, c, from, to))
        /\ ~IsOk(ScenarioCall(Storage, from, from, to))

\* C4 as stated: while paused, mint, mintBatch, burn, burnBatch,
\* safeTransferFrom and safeBatchTransferFrom fail with EnforcedPause for every
\* caller and every argument tuple, and change nothing.
C4_Original ==
    LET s == Storage IN
    paused =>
        \A c \in Callers :
            /\ \A id \in TokenIds, amount \in ClaimAmounts :
                /\ FailsWith(s, burn(s, c, id, amount), EnforcedPause)
                /\ \A to \in Addresses :
                    /\ FailsWith(s, mint(s, c, to, id, amount), EnforcedPause)
                    /\ \A from \in Addresses :
                        FailsWith(s, safe_transfer_from(s, c, from, to, id, amount),
                                  EnforcedPause)
            /\ \A ids \in BatchIds, amounts \in BatchValues :
                /\ FailsWith(s, burn_batch(s, c, ids, amounts), EnforcedPause)
                /\ \A to \in Addresses :
                    /\ FailsWith(s, mint_batch(s, c, to, ids, amounts), EnforcedPause)
                    /\ \A from \in Addresses :
                        FailsWith(s, safe_batch_transfer_from(s, c, from, to, ids, amounts),
                                  EnforcedPause)

\* The error of an owner-gated, pause-gated call by c while paused.
PausedMintError(s, c) == IF c = s.owner THEN EnforcedPause ELSE UnauthorizedAccount(c)

\* C4 (amended): while paused, burn, burnBatch, safeTransferFrom and
\* safeBatchTransferFrom fail with EnforcedPause for every caller and every
\* argument tuple; mint and mintBatch fail with EnforcedPause when the caller
\* is the owner and with UnauthorizedAccount otherwise; all leave the state
\* unchanged.
C4_PauseGating ==
    LET s == Storage IN
    paused =>
        \A c \in Callers :
            /\ \A id \in TokenIds, amount \in ClaimAmounts :
                /\ FailsWith(s, burn(s, c, id, amount), EnforcedPause)
                /\ \A to \in Addresses :
                    /\ FailsWith(s, mint(s, c, to, id, amount), PausedMintError(s, c))
                    /\ \A from \in Addresses :
                        FailsWith(s, safe_transfer_from(s, c, from, to, id, amount),
                                  EnforcedPause)
            /\ \A ids \in BatchIds, amounts \in BatchValues :
                /\ FailsWith(s, burn_batch(s, c, ids, amounts), EnforcedPause)
                /\ \A to \in Addresses :
                    /\ FailsWith(s, mint_batch(s, c, to, ids, amounts),
                                 PausedMintError(s, c))
                    /\ \A from \in Addresses :
                        FailsWith(s, safe_batch_transfer_from(s, c, from, to, ids, amounts),
                                  EnforcedPause)

\* A paused contract whose owner could otherwise mint and one of whose
\* holders could otherwise burn and transfer.
C4_Witness ==
    /\ paused
    /\ owner \in Accounts
    /\ \E c \in Accounts, id \in TokenIds : balances[c][id] >= 1

\* The event a successful step appends, and the caller it records: the
\* operator of a transfer, mint or burn event, the account of a pause event.
NewEvent == events'[Len(events')]
StepLogs(kinds) == Len(events') = Len(events) + 1 /\ NewEvent.kind \in kinds

\* In the current state, a safeTransferFrom, safeBatchTransferFrom or burnFrom
\* call on behalf of X by a caller that is neither X nor approved by X fails
\* with MissingApprovalForAll(operator = caller, owner = X) and changes
\* nothing (for a call that reaches the authorization check: the contract is
\* not paused and the arrays have equal lengths).
UnapprovedFails ==
    LET s == Storage IN
    \A c \in Callers, X \in Accounts :
        (X # c /\ ~is_approved_for_all(s, X, c) /\ ~s.paused) =>
            /\ \A id \in TokenIds, amount \in ClaimAmounts :
                /\ FailsWith(s, burn_from(s, c, X, id, amount),
                             ERC1155MissingApprovalForAll(c, X))
                /\ \A to \in Addresses :
                    FailsWith(s, safe_transfer_from(s, c, X, to, id, amount),
                              ERC1155MissingApprovalForAll(c, X))
            /\ \A ids \in BatchIds, amounts \in BatchValues, to \in Addresses :
                Len(ids) = Len(amounts) =>
                    FailsWith(s, safe_batch_transfer_from(s, c, X, to, ids, amounts),
                              ERC1155MissingApprovalForAll(c, X))

\* A transfer or burn step (its event has a non-null from) decreases
\* balance(X, id) only if its caller is X or approved by X before the step.
DebitOnlyIfAuthorized ==
    \A X \in Accounts, id \in TokenIds :
        (/\ StepLogs({"TransferSingle", "TransferBatch"})
         /\ NewEvent.from # Null
         /\ balances'[X][id] < balances[X][id])
        => (NewEvent.operator = X \/ operator_approvals[X][NewEvent.operator])

\* C5 (Authorization): across any sequence of calls, a safeTransferFrom,
\* safeBatchTransferFrom, burn, burnFrom or burnBatch step decreases
\* balance(X, id) only if its caller is X or operator_approvals[X][caller]
\* held when the step began; and such a call on behalf of X by an unapproved
\* caller fails with MissingApprovalForAll(operator = caller, owner = X) and
\* changes nothing.
C5_Authorization ==
    /\ []UnapprovedFails
    /\ [][DebitOnlyIfAuthorized]_vars

\* The call with result r on storage s changes none of owner, paused, base_uri
\* and next_token_id.
OwnerStateKept(s, r) ==
    LET s2 == Entrypoint(s, r) IN
        /\ s2.owner = s.owner
        /\ s2.paused = s.paused
        /\ s2.base_uri = s.base_uri
        /\ s2.next_token_id = s.next_token_id

\* In the current state, every owner-gated call by an account other than the
\* owner fails with UnauthorizedAccount and changes nothing, and no other call
\* by such an account (initialize excepted) changes owner, paused, base_uri or
\* next_token_id.
NonOwnerGated ==
    LET s == Storage IN
    \A c \in Callers :
        c # owner =>
            /\ FailsWith(s, pause(s, c), UnauthorizedAccount(c))
            /\ FailsWith(s, unpause(s, c), UnauthorizedAccount(c))
            /\ FailsWith(s, renounce_ownership(s, c), UnauthorizedAccount(c))
            /\ \A uri \in BaseUris : FailsWith(s, set_uri(s, c, uri), UnauthorizedAccount(c))
            /\ \A o \in Addresses :
                /\ FailsWith(s, transfer_ownership(s, c, o), UnauthorizedAccount(c))
                /\ \A b \in BOOLEAN : OwnerStateKept(s, set_approval_for_all(s, c, o, b))
            /\ \A to \in Addresses, amount \in ClaimAmounts :
                /\ FailsWith(s, mint_new(s, c, to, amount), UnauthorizedAccount(c))
                /\ \A id \in TokenIds :
                    /\ FailsWith(s, mint(s, c, to, id, amount), UnauthorizedAccount(c))
                    /\ OwnerStateKept(s, burn_from(s, c, to, id, amount))
                    /\ \A from \in Addresses :
                        OwnerStateKept(s, safe_transfer_from(s, c, from, to, id, amount))
            /\ \A id \in TokenIds, amount \in ClaimAmounts :
                OwnerStateKept(s, burn(s, c, id, amount))
            /\ \A ids \in BatchIds, amounts \in BatchValues :
                /\ OwnerStateKept(s, burn_batch(s, c, ids, amounts))
                /\ \A to \in Addresses :
                    /\ FailsWith(s, mint_batch(s, c, to, ids, amounts),
                                 UnauthorizedAccount(c))
                    /\ \A from \in Addresses :
                        OwnerStateKept(s, safe_batch_transfer_from(s, c, from, to, ids, amounts))

\* A step that increases a total_supply entry is a mint or burn step (the
\* only ones that write total_supply) whose caller is the owner.
SupplyGrowsOnlyByOwner ==
    (\E id \in IdSpace : total_supply'[id] > total_supply[id]) =>
        /\ StepLogs({"TransferSingle", "TransferBatch"})
        /\ NewEvent.operator = owner

\* C6 (Owner gating): mint, mintNew, mintBatch, pause, unpause, setUri,
\* transferOwnership and renounceOwnership called by an account other than
\* the stored owner fail with UnauthorizedAccount and change nothing;
\* consequently owner, paused, base_uri and next_token_id change, and
\* total_supply increases, only in steps whose caller is the owner at the
\* start of the step (initialize excepted).
C6_OwnerGating ==
    /\ []NonOwnerGated
    /\ [][SupplyGrowsOnlyByOwner]_vars

\* The step appends an event of a mint naming id (from is the null account).
StepMints(id) ==
    /\ Len(events') = Len(events) + 1
    /\ LET e == events'[Len(events')] IN
        \/ e.kind = "TransferSingle" /\ e.from = Null /\ e.id = id
        \/ /\ e.kind = "TransferBatch" /\ e.from = Null
           /\ \E i \in 1..Len(e.ids) : e.ids[i] = id

\* C7 (Existence monotonicity): in every step, for every token id, exists(id)
\* stays true once it is true, also when a burn brings total_supply(id) to
\* zero, and is true after every successful mint, mintNew or mintBatch that
\* names id.
C7_ExistenceMonotonic ==
    [][\A id \in IdSpace :
          /\ token_exists[id] => token_exists'[id]
          /\ StepMints(id) => token_exists'[id]]_vars

\* The whole supply of an id has just been burned, and the id still exists.
C7_Witness ==
    /\ Len(events) >= 1
    /\ LastEvent.kind = "TransferSingle"
    /\ LastEvent.to = Null
    /\ LastEvent.value >= 1
    /\ total_supply[LastEvent.id] = 0
    /\ token_exists[LastEvent.id]

\* A renounceOwnership call has succeeded: the log holds its event, an
\* ownership transfer from a non-null owner to the null account.
Renounced ==
    \E i \in 1..Len(events) :
        /\ events[i].kind = "OwnershipTransferred"
        /\ events[i].previousOwner # Null
        /\ events[i].newOwner = Null

\* C8 (Renounce is terminal): in every state after a successful
\* renounceOwnership the owner is the null account, and every mint, mintNew,
\* mintBatch, pause, unpause, setUri, transferOwnership, renounceOwnership and
\* initialize call by a non-null caller fails and changes nothing.
C8_RenounceTerminal ==
    LET s == Storage IN
    Renounced =>
        /\ owner = Null
        /\ \A uri \in BaseUris, o \in Addresses : Fails(s, initialize(s, uri, o))
        /\ \A c \in Callers :
            /\ Fails(s, pause(s, c))
            /\ Fails(s, unpause(s, c))
            /\ Fails(s, renounce_ownership(s, c))
            /\ \A uri \in BaseUris : Fails(s, set_uri(s, c, uri))
            /\ \A o \in Addresses : Fails(s, transfer_ownership(s, c, o))
            /\ \A to \in Addresses, amount \in ClaimAmounts :
                /\ Fails(s, mint_new(s, c, to, amount))
                /\ \A id \in TokenIds : Fails(s, mint(s, c, to, id, amount))
            /\ \A to \in Addresses, ids \in BatchIds, amounts \in BatchValues :
                Fails(s, mint_batch(s, c, to, ids, amounts))

\* Ownership was renounced and a later call has succeeded since.
C8_Witness ==
    /\ Renounced
    /\ LastEvent.kind # "OwnershipTransferred"

\* What initialize does in the current state: it succeeds with the stated
\* writes and one OwnershipTransferred event when the contract is not yet
\* initialized, and fails with the already-initialized error, changing
\* nothing, when it is.
InitializeOnceHere ==
    LET s == Storage IN
    \A uri \in BaseUris, o \in Addresses :
        LET r == initialize(s, uri, o)
            s2 == Entrypoint(s, r)
        IN  IF ~initialized
            THEN /\ IsOk(r)
                 /\ s2.owner = o
                 /\ s2.base_uri = uri
                 /\ s2.paused = FALSE
                 /\ s2.next_token_id = 1
                 /\ s2.initialized = TRUE
                 /\ s2.events = Append(events, OwnershipTransferred(Null, o))
                 /\ s2.balances = balances
            ELSE FailsWith(s, r, AlreadyInitialized)

\* C9 (Initialize is write-once): the first initialize succeeds, sets owner,
\* paused = false, next_token_id = 1, initialized = true and logs one
\* OwnershipTransferred from the null account; every later initialize fails
\* with the already-initialized error and changes nothing; initialized never
\* returns to false.
C9_InitializeOnce ==
    /\ []InitializeOnceHere
    /\ [][initialized => initialized']_vars

\* An initialized contract with a non-null owner that has taken calls since.
C9_Witness ==
    /\ initialized
    /\ owner # Null
    /\ Len(events) >= 2
    /\ events[1] = OwnershipTransferred(Null, owner)

\* The value of the last ApprovalForAll(C, P, _) event of the log up to index
\* n, FALSE when there is none.
RECURSIVE LastApproval(_, _, _)
LastApproval(C, P, n) ==
    IF n = 0 THEN FALSE
    ELSE IF /\ events[n].kind = "ApprovalForAll"
            /\ events[n].account = C
            /\ events[n].operator = P
         THEN events[n].approved
         ELSE LastApproval(C, P, n - 1)

\* C10 (Approval symmetry): in every reachable state, for every caller C and
\* every non-null operator P # C, setApprovalForAll(P, true) by C makes
\* isApprovedForAll(C, P) true and a following setApprovalForAll(P, false)
\* makes it false; setting the same value twice leaves the registry as after
\* the first; the registry holds the value of the last successful call;
\* setApprovalForAll(C, _) by C fails and changes nothing; the null operator
\* fails with InvalidOperator.
C10_ApprovalSymmetry ==
    LET s == Storage IN
    \A C \in Callers :
        /\ \A P \in Accounts \ {C} :
            LET r1 == set_approval_for_all(s, C, P, TRUE)
                s1 == Entrypoint(s, r1)
                r2 == set_approval_for_all(s1, C, P, FALSE)
                s2 == Entrypoint(s1, r2)
                s3 == Entrypoint(s1, set_approval_for_all(s1, C, P, TRUE))
                s4 == Entrypoint(s2, set_approval_for_all(s2, C, P, FALSE))
            IN  /\ IsOk(r1) /\ is_approved_for_all(s1, C, P)
                /\ IsOk(r2) /\ ~is_approved_for_all(s2, C, P)
                /\ s3.operator_approvals = s1.operator_approvals
                /\ s4.operator_approvals = s2.operator_approvals
                /\ is_approved_for_all(s, C, P) = LastApproval(C, P, Len(events))
        /\ \A b \in BOOLEAN :
            /\ FailsWith(s, set_approval_for_all(s, C, C, b), SelfApproval)
            /\ FailsWith(s, set_approval_for_all(s, C, Null, b),
                         ERC1155InvalidOperator(Null))

\* C has approved P and then revoked the approval.
C10_Witness ==
    \E C \in Accounts, P \in Accounts, i \in 1..Len(events), j \in 1..Len(events) :
        /\ i < j
        /\ events[i] = ApprovalForAll(C, P, TRUE)
        /\ events[j] = ApprovalForAll(C, P, FALSE)
        /\ ~operator_approvals[C][P]

\* The caller c may act on behalf of from in storage s.
Authorized(s, c, from) == c = from \/ is_approved_for_all(s, from, c)

\* In the current state, a safeTransferFrom, burn or burnFrom call that asks
\* for more than balance(from, id) fails with InsufficientBalance(sender =
\* from, balance = the current balance, needed = amount, tokenId = id) and
\* changes nothing (for a call that reaches the balance check: the contract is
\* not paused, the caller is authorized, from and to are not null).
InsufficientFails ==
    LET s == Storage IN
    ~paused =>
        \A c \in Callers, id \in TokenIds, amount \in ClaimAmounts :
            /\ amount > balances[c][id] =>
                  FailsWith(s, burn(s, c, id, amount),
                            ERC1155InsufficientBalance(c, balances[c][id], amount, id))
            /\ \A from \in Accounts :
                (Authorized(s, c, from) /\ amount > balances[from][id]) =>
                    LET e == ERC1155InsufficientBalance(from, balances[from][id], amount, id)
                    IN  /\ FailsWith(s, burn_from(s, c, from, id, amount), e)
                        /\ \A to \in Accounts :
                            FailsWith(s, safe_transfer_from(s, c, from, to, id, amount), e)

\* A step that logs a single transfer or burn (from is not null) debits an
\* amount the holder had: the new balance is the old one minus the amount as
\* integers (plus the amount again when from = to), never a wrapped difference.
DebitCovered ==
    (StepLogs({"TransferSingle"}) /\ NewEvent.from # Null) =>
        LET e == NewEvent IN
            /\ balances[e.from][e.id] >= e.value
            /\ balances'[e.from][e.id] =
                  IF e.to = e.from THEN balances[e.from][e.id]
                  ELSE balances[e.from][e.id] - e.value

RECURSIVE SequentialTransfers(_, _, _, _, _, _, _)
SequentialTransfers(s, c, from, to, ids, amounts, i) ==
    IF i > Len(ids) THEN [ok |-> TRUE, st |-> s]
    ELSE LET r == safe_transfer_from(s, c, from, to, ids[i], amounts[i]) IN
         IF IsOk(r)
         THEN SequentialTransfers(Entrypoint(s, r), c, from, to, ids, amounts, i + 1)
         ELSE [ok |-> FALSE, st |-> s]

\* The batch call agrees with the sequential application on storage s.
BatchIsSequential(s, c, from, to, ids, amounts) ==
    LET b == safe_batch_transfer_from(s, c, from, to, ids, amounts)
        q == SequentialTransfers(s, c, from, to, ids, amounts, 1)
    IN  /\ IsOk(b) <=> q.ok
        /\ IsOk(b) => Entrypoint(s, b).balances = q.st.balances

\* C12 as stated: for all from, to and ids, amounts of equal length (the empty
\* arrays included), safeBatchTransferFrom succeeds exactly when the
\* sequential safeTransferFrom calls would all succeed, and then leaves the
\* same balances.
C12_Original ==
    LET s == Storage IN
    \A c \in Callers, from \in Addresses, to \in Addresses,
       ids \in BatchIds, amounts \in BatchValues :
        Len(ids) = Len(amounts) => BatchIsSequential(s, c, from, to, ids, amounts)

\* C12 (amended): for all from, to and non-empty ids, amounts of equal length,
\* safeBatchTransferFrom succeeds exactly when the sequential safeTransferFrom
\* calls in input order would all succeed (each index checked against the
\* balances the earlier indices left, also when an id repeats or from = to),
\* and on success the balances are those of the sequential application; with
\* empty arrays the batch call succeeds exactly when the contract is not
\* paused, the caller is authorized and from and to are not null, and it
\* changes no balance.
C12_BatchIsSequential ==
    LET s == Storage IN
    \A c \in Callers, from \in Addresses, to \in Addresses :
        /\ \A ids \in BatchIds, amounts \in BatchValues :
            (Len(ids) = Len(amounts) /\ Len(ids) >= 1) =>
                BatchIsSequential(s, c, from, to, ids, amounts)
        /\ LET b == safe_batch_transfer_from(s, c, from, to, <<>>, <<>>) IN
            /\ IsOk(b) <=> (~paused /\ Authorized(s, c, from) /\ from # Null /\ to # Null)
            /\ Entrypoint(s, b).balances = balances

\* A batch transfer naming one id twice between two different accounts has
\* succeeded, and the receiver could now move the first amount back but not
\* a second amount that only the balance before the batch would cover.
C12_Witness ==
    /\ Len(events) >= 1
    /\ LastEvent.kind = "TransferBatch"
    /\ LastEvent.from # Null
    /\ LastEvent.to \notin {Null, LastEvent.from}
    /\ Len(LastEvent.ids) = 2
    /\ LastEvent.ids[1] = LastEvent.ids[2]
    /\ ~paused
    /\ \E ids \in BatchIds, amounts \in BatchValues :
        /\ Len(ids) = 2 /\ Len(amounts) = 2
        /\ BatchTransferLoop(Storage, LastEvent.to, LastEvent.from, ids, amounts, 1).at = 2

\* The effect and the frame of a step that logs a single transfer between two
\* non-null accounts, with the amounts as (unbounded) integers.
TransferEffect ==
    (StepLogs({"TransferSingle"}) /\ NewEvent.from # Null /\ NewEvent.to # Null) =>
        LET e == NewEvent IN
            /\ e.from # e.to =>
                /\ balances'[e.from][e.id] = balances[e.from][e.id] - e.value
                /\ balances'[e.to][e.id] = balances[e.to][e.id] + e.value
            /\ e.from = e.to => balances'[e.from][e.id] = balances[e.from][e.id]
            /\ \A a \in Addresses, i \in IdSpace :
                (i # e.id \/ a \notin {e.from, e.to}) => balances'[a][i] = balances[a][i]
            /\ UNCHANGED <<total_supply, token_exists, next_token_id,
                           operator_approvals, owner, paused>>

\* C13 (Effect and frame of a successful safeTransferFrom): when from # to,
\* balance(from, id) decreases by exactly amount and balance(to, id) increases
\* by exactly amount; when from = to, balance(from, id) is unchanged; every
\* other balance entry, total_supply, token_exists, next_token_id,
\* operator_approvals, owner and paused are unchanged.
C13_TransferEffect == [][TransferEffect]_vars

\* C14 (A failing mintNew leaves the allocator untouched): in every reachable
\* state, mintNew(to = null, amount) called by the owner while unpaused fails
\* with InvalidReceiver, and next_token_id, balances, total_supply and
\* token_exists (and the rest of the storage) are after the call what they
\* were before it, although the function body had already stored the
\* incremented counter when mint_internal refused the receiver.
C14_FailedMintNew ==
    LET s == Storage IN
    \A c \in Callers, amount \in ClaimAmounts :
        (c = owner /\ ~paused) =>
            LET r == mint_new(s, c, Null, amount) IN
                /\ r.err = ERC1155InvalidReceiver(Null)
                /\ r.st.next_token_id = Add(next_token_id, 1)
                /\ Entrypoint(s, r).next_token_id = next_token_id
                /\ Entrypoint(s, r).balances = balances
                /\ Entrypoint(s, r).total_supply = total_supply
                /\ Entrypoint(s, r).token_exists = token_exists
                /\ Entrypoint(s, r) = s

\* After one successful mintNew (id 1 is allocated, the counter stands at 2)
\* the owner of the unpaused contract calls mintNew for the null account.
C14_Witness ==
    /\ owner \in Callers
    /\ ~paused
    /\ next_token_id = 2
    /\ token_exists[1]
    /\ ~IsOk(mint_new(Storage, owner, Null, 1))
    /\ mint_new(Storage, owner, Null, 1).st.next_token_id = 3

\* In the current state a mintNew call by the owner of the unpaused contract
\* to a non-null account succeeds, returns the current next_token_id, mints
\* that id and leaves next_token_id one greater; every other mintNew call fails
\* and leaves the counter as it is.
MintNewAllocates ==
    LET s == Storage IN
    \A c \in Callers, to \in Addresses, amount \in ClaimAmounts :
        LET r == mint_new(s, c, to, amount)
            s2 == Entrypoint(s, r)
        IN  IF c = owner /\ ~paused /\ to # Null
            THEN /\ IsOk(r)
                 /\ r.ret = next_token_id
                 /\ s2.next_token_id = next_token_id + 1
                 /\ s2.events = Append(events, TransferSingle(c, Null, to, next_token_id, amount))
                 /\ s2.token_exists[next_token_id]
            ELSE ~IsOk(r) /\ s2.next_token_id = next_token_id

\* A step changes next_token_id only as the first initialize (to 1) or as a
\* successful mintNew (the logged mint names the old counter value, the new
\* value is one greater); after initialize the counter never decreases.
CounterStep ==
    /\ next_token_id' # next_token_id =>
        \/ ~initialized /\ initialized' /\ next_token_id' = 1
        \/ /\ initialized
           /\ next_token_id' = next_token_id + 1
           /\ StepLogs({"TransferSingle"})
           /\ NewEvent.from = Null
           /\ NewEvent.id = next_token_id
           /\ NewEvent.operator = owner
    /\ initialized => next_token_id' >= next_token_id
    /\ initialized' => next_token_id' >= 1

\* C15 (mintNew allocation): a successful mintNew returns exactly the value
\* next_token_id had before the call and leaves next_token_id one greater;
\* after initialize, next_token_id is changed by no operation other than a
\* successful mintNew and never decreases, so the ids returned by successive
\* successful mintNew calls are 1, 2, 3, ... in call order.
C15_MintNewAllocation ==
    /\ []MintNewAllocates
    /\ [][CounterStep]_vars

\* Two mintNew calls have succeeded right after initialize: they allocated
\* the ids 1 and 2 in this order and the counter stands at 3.
C15_Witness ==
    /\ next_token_id = 3
    /\ Len(events) = 3
    /\ events[2].kind = "TransferSingle" /\ events[2].from = Null /\ events[2].id = 1
    /\ events[3].kind = "TransferSingle" /\ events[3].from = Null /\ events[3].id = 2

\* The first error of a list of check results in the order given (NoErr when
\* every check passes).
RECURSIVE FirstError(_, _)
FirstError(checks, i) ==
    IF i > Len(checks) THEN NoErr
    ELSE IF checks[i] # NoErr THEN checks[i]
    ELSE FirstError(checks, i + 1)

\* The single checks of a transfer on storage s, each as the error it reports.
PauseCheck(s) == IF s.paused THEN EnforcedPause ELSE NoErr
AuthorizationCheck(s, c, from) ==
    IF Authorized(s, c, from) THEN NoErr ELSE ERC1155MissingApprovalForAll(c, from)
LengthCheck(ids, amounts) ==
    IF Len(ids) = Len(amounts) THEN NoErr
    ELSE ERC1155InvalidArrayLength(Len(ids), Len(amounts))
SenderCheck(from) == IF from # Null THEN NoErr ELSE ERC1155InvalidSender(from)
ReceiverCheck(to) == IF to # Null THEN NoErr ELSE ERC1155InvalidReceiver(to)
BalanceCheck(s, from, id, amount) ==
    IF s.balances[from][id] >= amount THEN NoErr
    ELSE ERC1155InsufficientBalance(from, s.balances[from][id], amount, id)
\* The balance checks of a batch, index after index on the balances the
\* earlier indices left (NoErr for arrays of different lengths, which never
\* reach them).
BatchBalanceCheck(s, from, to, ids, amounts) ==
    IF Len(ids) # Len(amounts) THEN NoErr
    ELSE BatchTransferLoop(s, from, to, ids, amounts, 1).err

\* safeTransferFrom reports the first failing check of: pause guard,
\* authorization, from # null, to # null, balance.
SingleOrder ==
    LET s == Storage IN
    \A c \in Callers, from \in Addresses, to \in Addresses,
       id \in TokenIds, amount \in ClaimAmounts :
        safe_transfer_from(s, c, from, to, id, amount).err =
            FirstError(<<PauseCheck(s), AuthorizationCheck(s, c, from),
                         SenderCheck(from), ReceiverCheck(to),
                         BalanceCheck(s, from, id, amount)>>, 1)

\* C16 as stated: safeTransferFrom and safeBatchTransferFrom report the first
\* failing check of: pause guard, authorization, (batch) length, from # null,
\* to # null, balance; in particular an unauthorized caller passing arrays of
\* different lengths gets MissingApprovalForAll.
C16_Original ==
    LET s == Storage IN
    /\ SingleOrder
    /\ \A c \in Callers, from \in Addresses, to \in Addresses,
          ids \in BatchIds, amounts \in BatchValues :
        safe_batch_transfer_from(s, c, from, to, ids, amounts).err =
            FirstError(<<PauseCheck(s), AuthorizationCheck(s, c, from),
                         LengthCheck(ids, amounts),
                         SenderCheck(from), ReceiverCheck(to),
                         BatchBalanceCheck(s, from, to, ids, amounts)>>, 1)

\* C16 (amended): safeTransferFrom reports the first failing check of: pause
\* guard, authorization, from # null, to # null, balance;
\* safeBatchTransferFrom reports the first failing check of: pause guard,
\* ids/amounts length, authorization, from # null, to # null, balance (index
\* by index).  An unauthorized caller passing arrays of different lengths
\* gets InvalidArrayLength; an unauthorized caller with from = null gets
\* MissingApprovalForAll.
C16_CheckOrder ==
    LET s == Storage IN
    /\ SingleOrder
    /\ \A c \in Callers, from \in Addresses, to \in Addresses,
          ids \in BatchIds, amounts \in BatchValues :
        /\ safe_batch_transfer_from(s, c, from, to, ids, amounts).err =
              FirstError(<<PauseCheck(s), LengthCheck(ids, amounts),
                           AuthorizationCheck(s, c, from),
                           SenderCheck(from), ReceiverCheck(to),
                           BatchBalanceCheck(s, from, to, ids, amounts)>>, 1)
        /\ (~paused /\ ~Authorized(s, c, from) /\ Len(ids) # Len(amounts)) =>
              safe_batch_transfer_from(s, c, from, to, ids, amounts).err.kind =
                  "ERC1155InvalidArrayLength"
    /\ \A c \in Callers, to \in Addresses, id \in TokenIds, amount \in ClaimAmounts :
        ~paused =>
            /\ safe_transfer_from(s, c, Null, to, id, amount).err =
                  ERC1155MissingApprovalForAll(c, Null)
            /\ safe_batch_transfer_from(s, c, Null, to, <<id>>, <<amount>>).err =
                  ERC1155MissingApprovalForAll(c, Null)

\* An unpaused contract in which one account holds tokens and has approved
\* an operator, while the operator has not approved the holder: calls run
\* into each of the checks.
C16_Witness ==
    /\ ~paused
    /\ \E c \in Accounts, from \in Accounts :
        /\ c # from
        /\ is_approved_for_all(Storage, from, c)
        /\ ~is_approved_for_all(Storage, c, from)
        /\ balances[from][1] >= 1
        /\ safe_batch_transfer_from(Storage, from, c, from, <<1>>, <<>>).err.kind =
              "ERC1155InvalidArrayLength"
        /\ safe_batch_transfer_from(Storage, c, from, Null, <<1>>, <<1>>).err.kind =
              "ERC1155InvalidReceiver"
        /\ safe_batch_transfer_from(Storage, c, from, c, <<1, 1>>, <<1, MaxUint>>).err.kind =
              "ERC1155InsufficientBalance"

\* What pause and unpause by the owner do in the current state.
PauseTransitions ==
    LET s == Storage IN
    \A c \in Callers :
        c = owner =>
            LET p == pause(s, c)
                u == unpause(s, c)
            IN  /\ IF ~paused
                   THEN /\ IsOk(p)
                        /\ Entrypoint(s, p) =
                             [s EXCEPT !.paused = TRUE, !.events = Append(@, Paused(c))]
                   ELSE FailsWith(s, p, EnforcedPause)
                /\ IF paused
                   THEN /\ IsOk(u)
                        /\ Entrypoint(s, u) =
                             [s EXCEPT !.paused = FALSE, !.events = Append(@, Unpaused(c))]
                   ELSE FailsWith(s, u, ExpectedPause)

\* The Paused and Unpaused events of the log up to index n alternate, starting
\* with Paused: the result is "paused" when the last of them is a Paused,
\* "unpaused" when it is an Unpaused or there is none, "broken" when two of
\* the same kind follow each other or the first is an Unpaused.
RECURSIVE PausedByLog(_)
PausedByLog(n) ==
    IF n = 0 THEN "unpaused"
    ELSE IF events[n].kind = "Paused"
         THEN IF PausedByLog(n - 1) = "unpaused" THEN "paused" ELSE "broken"
    ELSE IF events[n].kind = "Unpaused"
         THEN IF PausedByLog(n - 1) = "paused" THEN "unpaused" ELSE "broken"
    ELSE PausedByLog(n - 1)

\* The log alternates and the flag is what the log says.
PauseLogAlternates ==
    PausedByLog(Len(events)) = (IF paused THEN "paused" ELSE "unpaused")

\* A step changes paused only as a pause or unpause by the owner, logging
\* the matching event; the step that initializes leaves paused false.
PauseStep ==
    /\ paused' # paused =>
        /\ StepLogs({"Paused", "Unpaused"})
        /\ NewEvent.kind = (IF paused' THEN "Paused" ELSE "Unpaused")
        /\ NewEvent.account = owner
    /\ StepLogs({"Paused", "Unpaused"}) => paused' # paused
    /\ (~initialized /\ initialized') => ~paused'

\* C17 (Pause lifecycle): paused is false after initialize; pause() by the
\* owner succeeds only when paused is false (else EnforcedPause) and sets it
\* true; unpause() by the owner succeeds only when paused is true (else
\* ExpectedPause) and sets it false; no other operation changes paused; hence
\* in the event log Paused and Unpaused events strictly alternate, starting
\* with Paused.
C17_PauseLifecycle ==
    /\ [](PauseTransitions /\ PauseLogAlternates)
    /\ [][PauseStep]_vars

\* The owner has paused and then unpaused the contract.
C17_Witness ==
    /\ Len(events) = 3
    /\ events[2].kind = "Paused"
    /\ events[3].kind = "Unpaused"
    /\ ~paused
    /\ owner \in Callers

\* The call with result r on storage s appends exactly the event e to the
\* log when it succeeds and leaves the log as it is when it fails.
Emits(s, r, e) ==
    Entrypoint(s, r).events = (IF IsOk(r) THEN Append(s.events, e) ELSE s.events)

\* Every call in the current state logs exactly its one event on success
\* and nothing on failure.
OneEventPerCall ==
    LET s == Storage IN
    /\ \A uri \in BaseUris, o \in Addresses :
        Emits(s, initialize(s, uri, o), OwnershipTransferred(Null, o))
    /\ \A c \in Callers :
        /\ Emits(s, pause(s, c), Paused(c))
        /\ Emits(s, unpause(s, c), Unpaused(c))
        /\ Emits(s, renounce_ownership(s, c), OwnershipTransferred(owner, Null))
        /\ \A uri \in BaseUris : Emits(s, set_uri(s, c, uri), URI(uri, 0))
        /\ \A o \in Addresses :
            /\ Emits(s, transfer_ownership(s, c, o), OwnershipTransferred(owner, o))
            /\ \A b \in BOOLEAN :
                Emits(s, set_approval_for_all(s, c, o, b), ApprovalForAll(c, o, b))
        /\ \A id \in TokenIds, amount \in ClaimAmounts :
            /\ Emits(s, burn(s, c, id, amount), TransferSingle(c, c, Null, id, amount))
            /\ \A a \in Addresses :
                /\ Emits(s, mint(s, c, a, id, amount),
                         TransferSingle(c, Null, a, id, amount))
                /\ Emits(s, burn_from(s, c, a, id, amount),
                         TransferSingle(c, a, Null, id, amount))
                /\ \A to \in Addresses :
                    Emits(s, safe_transfer_from(s, c, a, to, id, amount),
                          TransferSingle(c, a, to, id, amount))
        /\ \A to \in Addresses, amount \in ClaimAmounts :
            Emits(s, mint_new(s, c, to, amount),
                  TransferSingle(c, Null, to, next_token_id, amount))
        /\ \A ids \in BatchIds, amounts \in BatchValues :
            /\ Emits(s, burn_batch(s, c, ids, amounts),
                     TransferBatch(c, c, Null, ids, amounts))
            /\ \A a \in Addresses :
                /\ Emits(s, mint_batch(s, c, a, ids, amounts),
                         TransferBatch(c, Null, a, ids, amounts))
                /\ \A to \in Addresses :
                    Emits(s, safe_batch_transfer_from(s, c, a, to, ids, amounts),
                          TransferBatch(c, a, to, ids, amounts))

\* The log is append-only and grows by at most one event per step.
LogStep ==
    \/ events' = events
    \/ /\ Len(events') = Len(events) + 1
       /\ SubSeq(events', 1, Len(events)) = events

\* C18 (Event emission): every successful mutating call appends exactly one
\* event to the log and every failed call appends none; a successful batch
\* call of any length (length 0 included) appends exactly one TransferBatch
\* carrying the full ids and amounts arrays and no TransferSingle; mint
\* events have from = null and burn events have to = null.
C18_EventEmission ==
    /\ []OneEventPerCall
    /\ [][LogStep]_vars

\* A batch mint of two ids and then a batch call with empty arrays have
\* succeeded: each is one TransferBatch in the log.
C18_Witness ==
    /\ Len(events) = 3
    /\ events[2].kind = "TransferBatch"
    /\ events[2].from = Null
    /\ Len(events[2].ids) = 2
    /\ events[3].kind = "TransferBatch"
    /\ events[3].ids = <<>>
    /\ events[3].values = <<>>

\* The arithmetic of one mint, burn or transfer of (id, value) on storage s
\* stays within the unsigned integers: the sums do not exceed MaxUint and the
\* supply covers the amount burned.
NoWrap(s, from, to, id, value) ==
    IF from = Null
    THEN /\ s.balances[to][id] + value <= MaxUint
         /\ s.total_supply[id] + value <= MaxUint
    ELSE IF to = Null
    THEN s.total_supply[id] >= value
    ELSE (s.balances[from][id] - value) + (IF to = from THEN 0 ELSE s.balances[to][id])
             + value <= MaxUint

\* The same for the indices i, i + 1, ... of a logged batch, each index on the
\* storage the earlier indices left.
RECURSIVE NoWrapBatch(_, _, _)
NoWrapBatch(s, e, i) ==
    IF i > Len(e.ids) THEN TRUE
    ELSE /\ NoWrap(s, e.from, e.to, e.ids[i], e.values[i])
         /\ NoWrapBatch(ReplayEvent(s, TransferSingle(e.operator, e.from, e.to,
                                                     e.ids[i], e.values[i])), e, i + 1)

\* No step stores a value produced by a wrapped operation.
NoWrapStep ==
    /\ StepLogs({"TransferSingle"}) =>
          NoWrap(Storage, NewEvent.from, NewEvent.to, NewEvent.id, NewEvent.value)
    /\ StepLogs({"TransferBatch"}) => NoWrapBatch(Storage, NewEvent, 1)

\* C19 (No arithmetic wraparound): no stored value is produced by a wrapped
\* operation: mint, mintNew and mintBatch never make balance(to, id) + amount
\* or total_supply(id) + amount exceed 2^Width - 1, the credit of a transfer
\* never exceeds 2^Width - 1, and whenever a burn passes its balance check
\* total_supply(id) >= amount.
C19_NoWraparound == [][NoWrapStep]_vars

\* A renounceOwnership call has succeeded while the contract was paused: the
\* log holds its event, and the Paused/Unpaused events before it end with a
\* Paused.
Frozen ==
    \E i \in 1..Len(events) :
        /\ events[i].kind = "OwnershipTransferred"
        /\ events[i].previousOwner # Null
        /\ events[i].newOwner = Null
        /\ PausedByLog(i - 1) = "paused"

\* In a frozen contract the flag is set, there is no owner, and every
\* transfer, mint, burn, unpause and initialize call fails, changing nothing.
FrozenState ==
    LET s == Storage IN
    Frozen =>
        /\ paused
        /\ owner = Null
        /\ \A uri \in BaseUris, o \in Addresses : Fails(s, initialize(s, uri, o))
        /\ \A c \in Callers :
            /\ Fails(s, unpause(s, c))
            /\ \A id \in TokenIds, amount \in ClaimAmounts :
                /\ Fails(s, burn(s, c, id, amount))
                /\ \A a \in Addresses :
                    /\ Fails(s, mint(s, c, a, id, amount))
                    /\ Fails(s, burn_from(s, c, a, id, amount))
                    /\ \A to \in Addresses :
                        Fails(s, safe_transfer_from(s, c, a, to, id, amount))
            /\ \A to \in Addresses, amount \in ClaimAmounts :
                Fails(s, mint_new(s, c, to, amount))
            /\ \A ids \in BatchIds, amounts \in BatchValues :
                /\ Fails(s, burn_batch(s, c, ids, amounts))
                /\ \A a \in Addresses :
                    /\ Fails(s, mint_batch(s, c, a, ids, amounts))
                    /\ \A to \in Addresses :
                        Fails(s, safe_batch_transfer_from(s, c, a, to, ids, amounts))

\* A step of a frozen contract changes neither the flag nor the ledger.
FrozenStep ==
    Frozen => UNCHANGED <<paused, owner, balances, total_supply, token_exists>>

FreshAllocation ==
    (initialized /\ next_token_id' = next_token_id + 1) =>
        /\ ~token_exists[next_token_id]
        /\ total_supply[next_token_id] = 0

\* C21 (Freshness of allocated ids): for every successful mintNew, the
\* returned id had exists(id) = false and total_supply(id) = 0 immediately
\* before the call, whatever mint and mintBatch calls with caller-chosen ids
\* preceded it.
C21_FreshIds == [][FreshAllocation]_vars

\* In the current state setApprovalForAll(P, b) by A, for a non-null P # A,
\* succeeds whether or not the contract is paused and changes no entry of the
\* registry other than [A][P], which it sets to b.
ApprovalByGrantor ==
    LET s == Storage IN
    \A A \in Callers : \A P \in Accounts \ {A}, b \in BOOLEAN :
        LET r == set_approval_for_all(s, A, P, b) IN
            /\ IsOk(r)
            /\ Entrypoint(s, r).operator_approvals =
                  [operator_approvals EXCEPT ![A][P] = b]

\* The call with result r on storage s leaves the registry as it is.
RegistryKept(s, r) == Entrypoint(s, r).operator_approvals = s.operator_approvals

\* In the current state no call other than setApprovalForAll, by whatever
\* caller (the owner and approved operators included), changes the registry.
OthersKeepRegistry ==
    LET s == Storage IN
    /\ \A uri \in BaseUris, o \in Addresses : RegistryKept(s, initialize(s, uri, o))
    /\ \A c \in Callers :
        /\ RegistryKept(s, pause(s, c))
        /\ RegistryKept(s, unpause(s, c))
        /\ RegistryKept(s, renounce_ownership(s, c))
        /\ \A uri \in BaseUris : RegistryKept(s, set_uri(s, c, uri))
        /\ \A o \in Addresses : RegistryKept(s, transfer_ownership(s, c, o))
        /\ \A id \in TokenIds, amount \in ClaimAmounts :
            /\ RegistryKept(s, burn(s, c, id, amount))
            /\ \A a \in Addresses :
                /\ RegistryKept(s, mint(s, c, a, id, amount))
                /\ RegistryKept(s, burn_from(s, c, a, id, amount))
                /\ \A to \in Addresses :
                    RegistryKept(s, safe_transfer_from(s, c, a, to, id, amount))
        /\ \A to \in Addresses, amount \in ClaimAmounts :
            RegistryKept(s, mint_new(s, c, to, amount))
        /\ \A ids \in BatchIds, amounts \in BatchValues :
            /\ RegistryKept(s, burn_batch(s, c, ids, amounts))
            /\ \A a \in Addresses :
                /\ RegistryKept(s, mint_batch(s, c, a, ids, amounts))
                /\ \A to \in Addresses :
                    RegistryKept(s, safe_batch_transfer_from(s, c, a, to, ids, amounts))

\* A step changes the entry [A][P] of the registry only as a successful
\* setApprovalForAll(P, _) by A: it logs ApprovalForAll(A, P, new value).
ApprovalStep ==
    \A A \in Addresses, P \in Addresses :
        operator_approvals'[A][P] # operator_approvals[A][P] =>
            /\ StepLogs({"ApprovalForAll"})
            /\ NewEvent = ApprovalForAll(A, P, operator_approvals'[A][P])

\* C22 (Approvals are changed only by their grantor): across any sequence of
\* calls, the entry operator_approvals[A][P] changes only in a successful
\* setApprovalForAll(P, _) step whose caller is A; no transfer, mint, burn,
\* pause, ownership or initialize step and no call by another account
\* modifies it; and setApprovalForAll is not blocked by the paused flag.
C22_ApprovalsByGrantor ==
    /\ [](ApprovalByGrantor /\ OthersKeepRegistry)
    /\ [][ApprovalStep]_vars

\* An account that is not the owner has granted an approval while the
\* contract was paused.
C22_Witness ==
    /\ paused
    /\ Len(events) = 3
    /\ LastEvent.kind = "ApprovalForAll"
    /\ LastEvent.approved
    /\ LastEvent.account # owner
    /\ operator_approvals[LastEvent.account][LastEvent.operator]

====
